---- MODULE Spec2Model ----
(***************************************************************************)
(* A model of the progressive feature-and-prediction pipeline:             *)
(*   ml/scripts/generate_historical_rnn_predictions.py  (walk-forward run) *)
(*   ml/scripts/train.py, ml/scripts/predict.py          (training stage,  *)
(*                                                        prediction stage)*)
(*                                                                         *)
(* Spec      the walk-forward run main() over a raw directory              *)
(* SpecWin   the two sequence windowers applied to bounded tables          *)
(* SpecFill  the three missing-value resolutions applied to bounded tables *)
(* SpecParse the two snapshot parsers applied to bounded JSON documents    *)
(* SpecBuild the two table builders and the loaders of the table they write *)
(* SpecSplit the two train/validation splits applied to bounded window lists *)
(* SpecPredict scaling, saving the scaler and predicting over bounded tables *)
(* SpecStore the two writers of the prediction output store                 *)
(* SpecPipe  run_pipeline.main over the stages it runs as commands          *)
(* SpecTarget the three look-ups of the target column of a table           *)
(* SpecPar   the iterations of main's loop run in any order, interleaved    *)
(* SpecScale fitting, scaling and inverse-scaling bounded dense tables      *)
(* SpecRate  AlphaVantageClient._make_request under its rate limiter        *)
(* SpecQuotes get_multiple_quotes over a list of symbols, then the CSV rows  *)
(* SpecCsv   run_intraday_fetch called again and again on one day           *)
(***************************************************************************)
EXTENDS Integers, Sequences, FiniteSets, TLC

\* ---------------------------------------------------------------- bounds
MaxFiles == 6       \* snapshot files in data/raw
MaxOdd == 2         \* files of the raw directory that are not well-formed
MaxRows == 5        \* rows of a table given to a windower
MaxFillRows == 4    \* rows of a table given to missing-value resolution
MaxAbsent == 1      \* deviations per section of a snapshot document
MaxBuildFiles == 3  \* files a table is built from
MaxDate == 2        \* distinct `date` values among those files
MaxWindows == 9     \* windows given to a split
MaxClock == 3       \* ticks of the wall clock after the first write

\* ------------------------------------------------------ program constants
TIMESTEPS == 3
\* Mutant of MIN_TRAINING_FILES: the guard of main asks for two files more.
MIN_TRAINING_FILES_strict == TIMESTEPS + 2
MIN_TRAINING_FILES == 3
TICKERS == <<"OKLO", "RKLB">>
TICKER_FIELDS == <<"close", "pct_change", "streak", "confidence",
                   "predicted_next_day_pct", "dip_onset_prob",
                   "dip_exhaustion_prob">>
BENCHMARKS == <<"SPY", "VIXY", "VIXM", "VIX">>
\* len(df.columns): every row parse_single_json returns has these columns.
FEATURE_COUNT == Len(TICKERS) * Len(TICKER_FIELDS) + Len(BENCHMARKS)

\* The missing-value marker (None / NaN).
NA == -1

\* A file name is modelled by its rank in lexicographic order: a name of the
\* form YYYY-MM-DD.json with rank n names day n.  The `date` field of a
\* snapshot is a day number, or NaT when the record has no `date` key
\* (pd.to_datetime(None)); NaT sorts after every date (sort_index).
DateSkew == 2
NaT == MaxFiles + DateSkew + 1

VARIABLES
    raw,          \* data/raw: file name -> what the file holds
    pc,           \* position of main(): "start", "loop", "prepared", "done"
    all_files,    \* main's sorted listing of data/raw
    i,            \* main's loop index (0-based, as in the code)
    df,           \* the feature table prepare_data_subset returned
    output_dir,   \* data/ChatGPTRNN: prediction date -> Prediction Record
    status,       \* log of main's loop: one entry per iteration, in order
    trained_on,   \* per emitted record, the table it was trained on
    table,        \* SpecWin / SpecFill: the input table
    target_col,   \* SpecWin: index of the target column
    result,       \* SpecWin / SpecFill: what each operation returned
    stage,        \* SpecWin / SpecFill: "input" or "applied"
    snapshot,     \* SpecParse: the JSON document json.load returned
    models_dir,   \* ml/models: the saved model and scaler files
    now           \* the wall clock

vars == <<raw, pc, all_files, i, df, output_dir, status, trained_on,
          table, target_col, result, stage, snapshot, models_dir, now>>
runVars == <<raw, pc, all_files, i, df, output_dir, status, trained_on>>
pureVars == <<table, target_col, result, stage, snapshot, models_dir, now>>

\* ------------------------------------------------------------ helpers
Max(a, b) == IF a >= b THEN a ELSE b

Range(s) == {s[k] : k \in 1..Len(s)}

\* s[a:b] of Python for 0 <= a, 0 <= b (0-based, end exclusive, clamped).
Slice(s, a, b) ==
    LET hi == IF b > Len(s) THEN Len(s) ELSE b
    IN  IF a >= hi THEN <<>> ELSE [k \in 1..(hi - a) |-> s[a + k]]

\* list.sort() / sorted() of a collection of distinct names.
RECURSIVE SortNames(_)
SortNames(S) ==
    IF S = {} THEN <<>>
    ELSE LET m == CHOOSE x \in S : \A y \in S : x <= y
         IN  <<m>> \o SortNames(S \ {m})

\* --------------------------------------------------- the raw directory
\* What one file of data/raw holds:
\*   valid    the name has the form YYYY-MM-DD.json
\*   exists   the file is still there when prepare_data_subset reaches it
\*   corrupt  json.load raises on it
\*   date     the `date` field of the document (NaT when absent)
FILE_KINDS == {"good", "late", "nodate", "corrupt", "badname", "gone"}

FileOf(n, kind) ==
    [ valid   |-> kind # "badname",
      exists  |-> kind # "gone",
      corrupt |-> kind = "corrupt",
      date    |-> IF kind = "late" THEN n + DateSkew
                  ELSE IF kind = "nodate" THEN NaT ELSE n ]

RawDirs ==
    UNION { { [k \in 1..n |-> FileOf(k, kinds[k])] :
                kinds \in { f \in [1..n -> FILE_KINDS] :
                              Cardinality({k \in 1..n : f[k] # "good"}) <= MaxOdd } }
            : n \in 0..MaxFiles }

\* ------------------------------------------------------------ windowers
\* A table is a sequence of rows, a row a sequence of cells, one per column of
\* COLUMNS.  Every column is treated alike by the windowers and by the
\* missing-value resolution, so two of the nineteen are carried: a target
\* column and a benchmark column.
COLUMNS == <<"OKLO_predicted_next_day_pct", "SPY_close">>
NumCols == Len(COLUMNS)

\* Mutant of Windows: each window starts one row late.
Windows_shifted(data, timesteps) ==
    [k \in 1..Max(0, Len(data) - timesteps) |->
        Slice(data, k, k + timesteps)]

\* [data[i:(i + timesteps)] for i in range(len(data) - timesteps)]
Windows(data, timesteps) ==
    [k \in 1..Max(0, Len(data) - timesteps) |->
        Slice(data, k - 1, k - 1 + timesteps)]

\* train.create_sequences: the label is one cell of the row after the window.
\* A label is written as the tuple of the cells of that row it holds.
train_create_sequences(data, target_col_index, timesteps) ==
    [ raised |-> FALSE,
      X |-> Windows(data, timesteps),
      y |-> [k \in 1..Max(0, Len(data) - timesteps) |->
                <<data[k + timesteps][target_col_index + 1]>>] ]

\* Mutant of gen_create_sequences: the length check asks for timesteps rows only.
gen_create_sequences_lax(data, timesteps) ==
    IF Len(data) < timesteps
    THEN [raised |-> TRUE, X |-> <<>>, y |-> <<>>]
    ELSE [ raised |-> FALSE,
           X |-> Windows(data, timesteps),
           y |-> [k \in 1..(Len(data) - timesteps) |-> data[k + timesteps]] ]

\* generate_historical_rnn_predictions.create_sequences: raises ValueError
\* below timesteps + 1 rows; the label is the whole row after the window.
gen_create_sequences(data, timesteps) ==
    IF Len(data) < timesteps + 1
    THEN [raised |-> TRUE, X |-> <<>>, y |-> <<>>]
    ELSE [ raised |-> FALSE,
           X |-> Windows(data, timesteps),
           y |-> [k \in 1..(Len(data) - timesteps) |-> data[k + timesteps]] ]

\* ------------------------------------------- missing-value resolution
IsNull(v) == v = NA

Column(tbl, c) == [r \in 1..Len(tbl) |-> tbl[r][c]]

\* The table of n rows with the given columns, as a tuple of tuples.
FromColumns(cols, n) ==
    LET C == SubSeq(cols, 1, Len(cols))
    IN  SubSeq([r \in 1..n |-> SubSeq([c \in 1..Len(C) |-> C[c][r]], 1, Len(C))], 1, n)

\* DataFrame.ffill on one column: carry the last valid observation forward.
RECURSIVE ffill_from(_, _, _)
ffill_from(col, k, last) ==
    IF k > Len(col) THEN <<>>
    ELSE LET v == IF IsNull(col[k]) THEN last ELSE col[k]
         IN  <<v>> \o ffill_from(col, k + 1, v)

ffill_col(col) == ffill_from(col, 1, NA)

\* DataFrame.bfill on one column: carry the next valid observation backward.
RECURSIVE bfill_from(_, _, _)
bfill_from(col, k, next) ==
    IF k < 1 THEN <<>>
    ELSE LET v == IF IsNull(col[k]) THEN next ELSE col[k]
         IN  bfill_from(col, k - 1, v) \o <<v>>

bfill_col(col) == bfill_from(col, Len(col), NA)

\* Mutant of fillna_col: nothing is filled.
fillna_col_noop(col, value) == col

fillna_col(col, value) == [k \in 1..Len(col) |-> IF IsNull(col[k]) THEN value ELSE col[k]]

ffill(tbl) == FromColumns([c \in 1..NumCols |-> ffill_col(Column(tbl, c))], Len(tbl))
bfill(tbl) == FromColumns([c \in 1..NumCols |-> bfill_col(Column(tbl, c))], Len(tbl))
fillna(tbl, value) ==
    FromColumns([c \in 1..NumCols |-> fillna_col(Column(tbl, c), value)], Len(tbl))

\* df.isnull().sum().sum() > 0
HasNull(tbl) == \E r \in 1..Len(tbl) : \E c \in 1..NumCols : IsNull(tbl[r][c])

\* Mutant of gen_clean: backward-fill runs before forward-fill.
gen_clean_bfill_first(tbl) == fillna(ffill(bfill(tbl)), 0)

\* prepare_data_subset, "Clean the data".
gen_clean(tbl) == fillna(bfill(ffill(tbl)), 0)

\* train.load_and_preprocess_data: zero-fill only when nulls remain.
train_clean(tbl) ==
    LET filled == bfill(ffill(tbl))
    IN  IF HasNull(filled) THEN fillna(filled, 0) ELSE filled

\* predict.make_prediction, "Load and Prepare Data".
predict_clean(tbl) == fillna(bfill(ffill(tbl)), 0)

\* ------------------------------------------------- the walk-forward run
\* prepare_data_subset: rows of the files that exist, in the order given.
\* A row carries its index (`date`) and the file it was parsed from; the cells
\* of a row are the subject of SpecFill.
ParsedRows(raw_files) ==
    { [date |-> raw[f].date, src |-> f] : f \in {g \in Range(raw_files) : raw[g].exists} }

\* prepare_data_subset raises: json.load fails on a file, or no file gave a row.
prepare_raises(raw_files) ==
    \/ \E f \in Range(raw_files) : raw[f].exists /\ raw[f].corrupt
    \/ ParsedRows(raw_files) = {}

\* df.sort_index(): ascending by date, NaT last; the order of rows with equal
\* dates is not fixed by the sort, so every such order is a possible table.
RECURSIVE SortIndex(_)
SortIndex(rows) ==
    IF rows = {} THEN {<<>>}
    ELSE UNION { { <<r>> \o rest : rest \in SortIndex(rows \ {r}) } :
                 r \in {x \in rows : \A y \in rows : x.date <= y.date} }

prepare_data_subset(raw_files) == SortIndex(ParsedRows(raw_files))

\* Mutant of TrainingFiles: the prefix includes the target's own file.
TrainingFiles_inclusive(files, k) == Slice(files, 0, k + 1)

\* all_files[:i]
TrainingFiles(files, k) == Slice(files, 0, k)

\* train_and_predict returns None: create_sequences raised ValueError.
returns_none(data) == gen_create_sequences(data, TIMESTEPS).raised

UNKNOWN == 0

\* get_training_sources: the training period is read off the file names that
\* have the date format.
get_training_sources(files_used) ==
    LET dates == {f \in Range(files_used) : raw[f].valid}
        lo == IF dates = {} THEN UNKNOWN ELSE CHOOSE d \in dates : \A e \in dates : d <= e
        hi == IF dates = {} THEN UNKNOWN ELSE CHOOSE d \in dates : \A e \in dates : d >= e
    IN  [ training_data_sources |-> SortNames(Range(files_used)),
          training_period |-> [start_date |-> lo, end_date |-> hi],
          training_samples |-> Len(files_used) ]

PredictionObj(prediction_date, predictions, training_files) ==
    [ date |-> prediction_date,
      created_at |-> now,
      predictions |-> predictions,
      metadata |-> [ sources |-> get_training_sources(training_files),
                     feature_count |-> FEATURE_COUNT,
                     model_version |-> "v1",
                     timesteps |-> TIMESTEPS ],
      schema_version |-> "1.0" ]

\* open(output_file, 'w'); json.dump
WriteFile(dir, name, content) ==
    [n \in DOMAIN dir \cup {name} |-> IF n = name THEN content ELSE dir[n]]

\* Mutant of OnError: an exception ends the run.
OnError_abort == "done"

\* except Exception: ... continue
OnError == "loop"

Logged(outcome, rows, ticker) ==
    Append(status, [pos |-> i, outcome |-> outcome, rows |-> rows, ticker |-> ticker])

Init ==
    /\ raw \in RawDirs
    /\ pc = "start"
    /\ all_files = <<>>
    /\ i = 0
    /\ df = <<>>
    /\ output_dir = <<>>
    /\ status = <<>>
    /\ trained_on = <<>>
    /\ table = <<>> /\ target_col = 0 /\ result = <<>> /\ stage = "off"
    /\ snapshot = <<>>
    /\ models_dir = <<>> /\ now = 0

\* main, lines 204-209: fewer than two files, nothing to do.
TooFewFiles ==
    /\ pc = "start"
    /\ Cardinality(DOMAIN raw) < 2
    /\ all_files' = SortNames(DOMAIN raw)
    /\ pc' = "done"
    /\ UNCHANGED <<raw, i, df, output_dir, status, trained_on, pureVars>>

\* main, lines 204-214: list, sort, enter the loop at i = 1.
ListFiles ==
    /\ pc = "start"
    /\ Cardinality(DOMAIN raw) >= 2
    /\ all_files' = SortNames(DOMAIN raw)
    /\ i' = 1
    /\ pc' = "loop"
    /\ UNCHANGED <<raw, df, output_dir, status, trained_on, pureVars>>

InLoop == pc = "loop" /\ i < Len(all_files)
current_file == all_files[i + 1]
training_files == TrainingFiles(all_files, i)

\* lines 219-224: the file name is no date.
SkipInvalidName ==
    /\ InLoop
    /\ ~raw[current_file].valid
    /\ status' = Logged("invalid_name", 0, "")
    /\ i' = i + 1
    /\ UNCHANGED <<raw, pc, all_files, df, output_dir, trained_on, pureVars>>

\* lines 228-231: fewer than three training files.
SkipFewFiles ==
    /\ InLoop
    /\ raw[current_file].valid
    /\ Len(training_files) < MIN_TRAINING_FILES
    /\ status' = Logged("too_few_files", 0, "")
    /\ i' = i + 1
    /\ UNCHANGED <<raw, pc, all_files, df, output_dir, trained_on, pureVars>>

\* line 235 raising into lines 271-273.
PrepareRaises ==
    /\ InLoop
    /\ raw[current_file].valid
    /\ Len(training_files) >= MIN_TRAINING_FILES
    /\ prepare_raises(training_files)
    /\ status' = Logged("error", 0, "")
    /\ i' = i + 1
    /\ pc' = OnError
    /\ UNCHANGED <<raw, all_files, df, output_dir, trained_on, pureVars>>

\* line 235 returning a table.
Prepare ==
    /\ InLoop
    /\ raw[current_file].valid
    /\ Len(training_files) >= MIN_TRAINING_FILES
    /\ ~prepare_raises(training_files)
    /\ df' \in prepare_data_subset(training_files)
    /\ pc' = "prepared"
    /\ UNCHANGED <<raw, all_files, i, output_dir, status, trained_on, pureVars>>

\* lines 239-244 raising into lines 271-273: train_and_predict raises for a
\* ticker (scaling, fitting or predicting fails); what was predicted for an
\* earlier ticker is dropped with the iteration.
TrainRaises ==
    /\ pc = "prepared"
    /\ \E t \in 1..Len(TICKERS) : status' = Logged("error", Len(df), TICKERS[t])
    /\ i' = i + 1
    /\ pc' = OnError
    /\ UNCHANGED <<raw, all_files, df, output_dir, trained_on, pureVars>>

\* lines 239-248: train_and_predict returned None for every ticker.
NoPredictions ==
    /\ pc = "prepared"
    /\ returns_none(df)
    /\ status' = Logged("no_predictions", Len(df), "")
    /\ i' = i + 1
    /\ pc' = "loop"
    /\ UNCHANGED <<raw, all_files, df, output_dir, trained_on, pureVars>>

\* lines 239-269: a prediction for every ticker, the record is written.
SavePrediction ==
    /\ pc = "prepared"
    /\ ~returns_none(df)
    /\ output_dir' = WriteFile(output_dir, current_file,
            PredictionObj(current_file, Range(TICKERS), training_files))
    /\ trained_on' = WriteFile(trained_on, current_file, df)
    /\ status' = Logged("saved", Len(df), "")
    /\ i' = i + 1
    /\ pc' = "loop"
    /\ UNCHANGED <<raw, all_files, df, pureVars>>

\* line 275: the loop is exhausted.
Finish ==
    /\ pc = "loop"
    /\ i >= Len(all_files)
    /\ pc' = "done"
    /\ UNCHANGED <<raw, all_files, i, df, output_dir, status, trained_on, pureVars>>

Next ==
    \/ TooFewFiles
    \/ ListFiles
    \/ SkipInvalidName
    \/ SkipFewFiles
    \/ PrepareRaises
    \/ Prepare
    \/ TrainRaises
    \/ NoPredictions
    \/ SavePrediction
    \/ Finish

Spec == Init /\ [][Next]_vars

\* ------------------------------------------------ properties of the run
\* Every file has a date-format name and is there when it is read.
AllNamed == \A n \in DOMAIN raw : raw[n].valid /\ raw[n].exists

\* No exception reached main's handler.
NoStepRaised == \A k \in 1..Len(status) : status[k].outcome # "error"

SavedAt == {status[k].pos : k \in {j \in 1..Len(status) : status[j].outcome = "saved"}}

\* C1 as stated: in a run over N date-named files in which no step raises,
\* records are emitted for exactly the files at positions T, ..., N-1 (0-based):
\* the first T files get none, the other N - T get one each.
C1_Original ==
    (pc = "done" /\ AllNamed /\ NoStepRaised) =>
        /\ DOMAIN output_dir = {all_files[k] : k \in (TIMESTEPS + 1)..Len(all_files)}
        /\ SavedAt = TIMESTEPS..(Len(all_files) - 1)

\* C1 amended: in such a run records are emitted for exactly the files at
\* positions T+1, ..., N-1 (0-based): the first T+1 files get none (the file
\* at position T has a prefix of only T rows), the other N - T - 1 get one
\* each (10 files give 6 records).
C1_Amended ==
    (pc = "done" /\ AllNamed /\ NoStepRaised) =>
        /\ DOMAIN output_dir = {all_files[k] : k \in (TIMESTEPS + 2)..Len(all_files)}
        /\ SavedAt = (TIMESTEPS + 1)..(Len(all_files) - 1)

C1_Witness ==
    /\ pc = "done" /\ AllNamed /\ NoStepRaised
    /\ Len(all_files) >= TIMESTEPS + 3
    /\ Cardinality(DOMAIN output_dir) = Len(all_files) - (TIMESTEPS + 1)
    /\ \E k \in 1..Len(status) :
          status[k].pos = TIMESTEPS /\ status[k].outcome = "no_predictions"

\* C2: the record emitted for the file at sorted position p lists as
\* training_data_sources exactly the files at positions 0..p-1, in sorted
\* order: never the target's own file nor a file sorting after it.
C2_SourcesArePrefix ==
    \A d \in DOMAIN output_dir :
        LET src == output_dir[d].metadata.sources.training_data_sources
            p == CHOOSE k \in 1..Len(all_files) : all_files[k] = d
        IN  /\ src = [k \in 1..(p - 1) |-> all_files[k]]
            /\ \A k \in 1..Len(src) : src[k] < d
            /\ \A j, k \in 1..Len(src) : j < k => src[j] < src[k]

C2_Witness ==
    \E d \in DOMAIN output_dir :
        /\ Len(output_dir[d].metadata.sources.training_data_sources) >= TIMESTEPS + 1
        /\ \E n \in DOMAIN raw : n > d

\* C3 as stated: every row of the table a record for target date D was
\* trained on and predicted from is dated strictly before D.
C3_RowsBeforeTarget ==
    \A d \in DOMAIN trained_on :
        \A k \in 1..Len(trained_on[d]) : trained_on[d][k].date < d

\* C4: an exception in one iteration does not end the run: no record is
\* written for that date, the iterations are logged for positions 1, 2, ...
\* in order, one each, and at the end every position 1..N-1 has been visited.
C4_ErrorsDoNotAbort ==
    /\ \A k \in 1..Len(status) : status[k].pos = k
    /\ pc \in {"loop", "prepared"} => Len(status) = i - 1
    /\ (pc = "done" /\ Len(all_files) >= 2) => Len(status) = Len(all_files) - 1
    /\ \A k \in 1..Len(status) :
          status[k].outcome = "error" => all_files[status[k].pos + 1] \notin DOMAIN output_dir

C4_Witness ==
    /\ pc = "done"
    /\ \E j, k \in 1..Len(status) :
          /\ j < k
          /\ status[j].outcome = "error" /\ status[j].rows >= TIMESTEPS + 1
          /\ status[k].outcome = "saved"

\* C5: a record is emitted for D only when D's prefix gave at least T+1
\* rows; with fewer rows the iteration writes nothing and the run goes on to
\* the next position.
C5_NeedsEnoughRows ==
    /\ \A d \in DOMAIN output_dir :
          d \in DOMAIN trained_on /\ Len(trained_on[d]) >= TIMESTEPS + 1
    /\ \A k \in 1..Len(status) :
          (status[k].outcome \in {"no_predictions", "saved"} /\ status[k].rows < TIMESTEPS + 1) =>
              /\ status[k].outcome = "no_predictions"
              /\ all_files[status[k].pos + 1] \notin DOMAIN output_dir
              /\ pc = "done" => (k < Len(status) \/ status[k].pos = Len(all_files) - 1)

C5_Witness ==
    \E j, k \in 1..Len(status) :
        /\ j < k
        /\ status[j].pos > TIMESTEPS
        /\ status[j].outcome = "no_predictions"
        /\ status[k].outcome = "saved"

\* ------------------------------------------------ the windowers, applied
\* Cells of a scaled table lie in [0, 1].
WinValues == 0..1
WinTables == UNION { [1..n -> [1..NumCols -> WinValues]] : n \in 0..MaxRows }

\* train.main, lines 59-67: window the scaled table; with no window it prints
\* and returns, otherwise it goes on to split and fit.
train_main_sequences(data, target_col_index) ==
    LET seqs == train_create_sequences(data, target_col_index, TIMESTEPS)
    IN  [ raised |-> seqs.raised, X |-> seqs.X, y |-> seqs.y,
          proceeds |-> Len(seqs.X) # 0 ]

RunIdle ==
    /\ raw = <<>> /\ pc = "off" /\ all_files = <<>> /\ i = 0 /\ df = <<>>
    /\ output_dir = <<>> /\ status = <<>> /\ trained_on = <<>>
    /\ models_dir = <<>> /\ now = 0

InitWin ==
    /\ RunIdle
    /\ table \in WinTables
    /\ target_col \in 0..(NumCols - 1)
    /\ result = <<>>
    /\ stage = "input"
    /\ snapshot = <<>>

TrainWindow ==
    /\ stage = "input"
    /\ result' = train_main_sequences(table, target_col)
    /\ stage' = "train"
    /\ UNCHANGED <<runVars, table, target_col, snapshot, models_dir, now>>

GenWindow ==
    /\ stage = "input"
    /\ result' = gen_create_sequences(table, TIMESTEPS)
    /\ stage' = "gen"
    /\ UNCHANGED <<runVars, table, target_col, snapshot, models_dir, now>>

NextWin == TrainWindow \/ GenWindow

SpecWin == InitWin /\ [][NextWin]_vars

Applied == stage \in {"train", "gen"}

\* C6: on a table of N rows a windower yields max(0, N - T) windows and as
\* many labels, and window k (1-based) is rows k, ..., k+T-1 of the table in
\* order.
C6_WindowCountAndContent ==
    Applied =>
        /\ Len(result.X) = Max(0, Len(table) - TIMESTEPS)
        /\ Len(result.y) = Len(result.X)
        /\ \A k \in 1..Len(result.X) :
              /\ Len(result.X[k]) = TIMESTEPS
              /\ \A j \in 1..TIMESTEPS : result.X[k][j] = table[k + j - 1]

C6_Witness ==
    /\ stage = "gen"
    /\ Len(table) = TIMESTEPS + 2
    /\ Len(result.X) = 2
    /\ result.X[1] # result.X[2]
    /\ table[1] # table[TIMESTEPS + 1]

\* C7 as stated: with either windower the label of window k is the single
\* cell of the row after the window at the target column, nothing else.
C7_LabelIsTargetCell ==
    Applied =>
        \A k \in 1..Len(result.y) :
            result.y[k] = <<table[k + TIMESTEPS][target_col + 1]>>

\* C8 as stated: windowing a table of at most T rows fails with an error in
\* the training stage and in the progressive predictor alike; a table of
\* T+1 rows does not fail.
C8_FailsBelowMinimum ==
    Applied =>
        /\ Len(table) <= TIMESTEPS => result.raised
        /\ Len(table) = TIMESTEPS + 1 => ~result.raised

\* ------------------------------------- missing-value resolution, applied
FillValues == {NA, 1, 2}
FillTables == UNION { [1..n -> [1..NumCols -> FillValues]] : n \in 0..MaxFillRows }

InitFill ==
    /\ RunIdle
    /\ table \in FillTables
    /\ target_col = 0
    /\ result = <<>>
    /\ stage = "input"
    /\ snapshot = <<>>

GenClean ==
    /\ stage = "input"
    /\ result' = gen_clean(table)
    /\ stage' = "gen"
    /\ UNCHANGED <<runVars, table, target_col, snapshot, models_dir, now>>

TrainClean ==
    /\ stage = "input"
    /\ result' = train_clean(table)
    /\ stage' = "train"
    /\ UNCHANGED <<runVars, table, target_col, snapshot, models_dir, now>>

PredictClean ==
    /\ stage = "input"
    /\ result' = predict_clean(table)
    /\ stage' = "predict"
    /\ UNCHANGED <<runVars, table, target_col, snapshot, models_dir, now>>

NextFill == GenClean \/ TrainClean \/ PredictClean

SpecFill == InitFill /\ [][NextFill]_vars

Cleaned == stage \in {"gen", "train", "predict"}

\* C9: after missing-value resolution of a table with at least one row no
\* cell holds the missing-value marker, in each of the three stages, and the
\* table keeps its shape.
C9_Dense ==
    (Cleaned /\ Len(table) >= 1) =>
        /\ Len(result) = Len(table)
        /\ \A r \in 1..Len(result) :
              /\ Len(result[r]) = NumCols
              /\ \A c \in 1..NumCols : result[r][c] # NA

C9_Witness ==
    /\ stage = "train"
    /\ Len(table) >= 2
    /\ \A r \in 1..Len(table) : table[r][1] = NA
    /\ table[1][2] = NA /\ table[Len(table)][2] # NA

\* C10: a missing cell takes the most recent earlier value of its column
\* when there is one, else the nearest later value, else 0; a cell that was
\* not missing keeps its value.
C10_FillOrder ==
    Cleaned =>
        \A r \in 1..Len(table) : \A c \in 1..NumCols :
            LET earlier == {k \in 1..(r - 1) : table[k][c] # NA}
                later == {k \in (r + 1)..Len(table) : table[k][c] # NA}
            IN  IF table[r][c] # NA THEN result[r][c] = table[r][c]
                ELSE IF earlier # {}
                     THEN result[r][c] = table[CHOOSE k \in earlier : \A m \in earlier : m <= k][c]
                ELSE IF later # {}
                     THEN result[r][c] = table[CHOOSE k \in later : \A m \in later : k <= m][c]
                ELSE result[r][c] = 0

C10_Witness ==
    /\ stage = "gen"
    /\ Len(table) = 4
    /\ Column(table, 1) = <<NA, 1, NA, 2>>
    /\ Column(table, 2) = <<NA, NA, NA, NA>>
    /\ Column(result, 1) = <<1, 1, 1, 2>>
    /\ Column(result, 2) = <<0, 0, 0, 0>>

\* ------------------------------------------------- the snapshot parser
\* A JSON value carries its type: an object is a function from its keys.
\* and has no number, a number has no keys.
NoKeys == [k \in {} |-> 0]
Obj(f) == [type |-> "object", n |-> 0, v |-> f]
Num(n) == [type |-> "number", n |-> n, v |-> NoKeys]
Null == [type |-> "null", n |-> 0, v |-> NoKeys]
Str == [type |-> "string", n |-> 0, v |-> NoKeys]
EmptyObj == Obj(NoKeys)

\* dict.get(key, default)
dict_get(obj, key, default) == IF key \in DOMAIN obj.v THEN obj.v[key] ELSE default

\* isinstance(x, dict); x.get on anything else raises AttributeError.
IsDict(x) == x.type = "object"

\* The value a row holds for what .get returned: None is the missing marker.
Cell(x) == IF x.type = "number" THEN x.n ELSE NA

\* row[key] = value
Put(row, key, value) ==
    [c \in DOMAIN row \cup {key} |-> IF c = key THEN value ELSE row[c]]

\* lines 30-36: the seven fields of one ticker.
RECURSIVE SetTickerFields(_, _, _, _)
SetTickerFields(row, ticker, ticker_data, k) ==
    IF k > Len(TICKER_FIELDS) THEN row
    ELSE SetTickerFields(
            Put(row, ticker \o "_" \o TICKER_FIELDS[k],
                Cell(dict_get(ticker_data, TICKER_FIELDS[k], Null))),
            ticker, ticker_data, k + 1)

\* lines 28-36: for ticker in ['OKLO', 'RKLB'].
RECURSIVE SetTickers(_, _, _)
SetTickers(row, tickers, k) ==
    IF k > Len(TICKERS) THEN row
    ELSE SetTickers(
            SetTickerFields(row, TICKERS[k], dict_get(tickers, TICKERS[k], EmptyObj), 1),
            tickers, k + 1)

\* Mutant of BenchmarkClose: a bare scalar is not taken.
BenchmarkClose_dict_only(bench_data) ==
    IF IsDict(bench_data) THEN Cell(dict_get(bench_data, "close", Null))
    ELSE NA

\* lines 41-46: a sub-record gives its close, a number itself, else None.
BenchmarkClose(bench_data) ==
    IF IsDict(bench_data) THEN Cell(dict_get(bench_data, "close", Null))
    ELSE IF bench_data.type = "number" THEN bench_data.n
    ELSE NA

\* Mutant of SetBenchmarks: a benchmark the document lacks gets no column.
RECURSIVE SetBenchmarks_present_only(_, _, _)
SetBenchmarks_present_only(row, benchmarks, k) ==
    IF k > Len(BENCHMARKS) THEN row
    ELSE SetBenchmarks_present_only(
            IF BENCHMARKS[k] \in DOMAIN benchmarks.v
            THEN Put(row, BENCHMARKS[k] \o "_close",
                     BenchmarkClose(dict_get(benchmarks, BENCHMARKS[k], Null)))
            ELSE row,
            benchmarks, k + 1)

\* lines 39-46: for benchmark in ['SPY', 'VIXY', 'VIXM', 'VIX'].
RECURSIVE SetBenchmarks(_, _, _)
SetBenchmarks(row, benchmarks, k) ==
    IF k > Len(BENCHMARKS) THEN row
    ELSE SetBenchmarks(
            Put(row, BENCHMARKS[k] \o "_close",
                BenchmarkClose(dict_get(benchmarks, BENCHMARKS[k], Null))),
            benchmarks, k + 1)

\* parse_single_json, from the loaded document on.  It raises (AttributeError)
\* when `tickers`, a tracked ticker's entry or `benchmarks` is there but is
\* no mapping; a missing `date` is no error, the row's date is None.
parse_row(doc) ==
    LET tickers == dict_get(doc, "tickers", EmptyObj)
        benchmarks == dict_get(doc, "benchmarks", EmptyObj)
        date_row == Put(<<>>, "date", Cell(dict_get(doc, "date", Null)))
    IN  IF \/ ~IsDict(tickers)
           \/ \E k \in 1..Len(TICKERS) : ~IsDict(dict_get(tickers, TICKERS[k], EmptyObj))
           \/ ~IsDict(benchmarks)
        THEN [raised |-> TRUE, row |-> <<>>]
        ELSE [raised |-> FALSE,
              row |-> SetBenchmarks(SetTickers(date_row, tickers, 1), benchmarks, 1)]

\* generate_historical_rnn_predictions.parse_single_json
gen_parse_single_json(doc) == parse_row(doc)

\* prepare_data.parse_single_json
prep_parse_single_json(doc) == parse_row(doc)

\* ------------------------------------------------ snapshot documents
IndexOf(seq, x) == CHOOSE k \in 1..Len(seq) : seq[k] = x

\* The subsets of S with at most k elements.
RECURSIVE UpTo(_, _)
UpTo(S, k) ==
    IF k = 0 THEN {{}}
    ELSE LET P == UpTo(S, k - 1) IN P \cup {T \cup {x} : T \in P, x \in S}

\* Every field of a document holds a number of its own.
FieldValue(t, f) == 10 * IndexOf(TICKERS, t) + IndexOf(TICKER_FIELDS, f)
CloseValue(b) == 50 + IndexOf(BENCHMARKS, b)
ScalarValue(b) == 60 + IndexOf(BENCHMARKS, b)

\* The `tickers` mapping lacking the entries and fields named in D.
TickerSection(D) ==
    Obj([t \in {u \in Range(TICKERS) : <<u, "absent">> \notin D} |->
            IF <<t, "null">> \in D THEN Null
            ELSE Obj([f \in {g \in Range(TICKER_FIELDS) : <<t, g>> \notin D} |->
                        Num(FieldValue(t, f))])])

TickerSections ==
    { TickerSection(D) :
        D \in UpTo(Range(TICKERS) \X (Range(TICKER_FIELDS) \cup {"absent", "null"}),
                   MaxAbsent) }

BENCH_KINDS == {"record", "noclose", "scalar", "string", "null", "absent"}

BenchValue(b, kind) ==
    IF kind = "record" THEN Obj([k \in {"close", "volume"} |-> Num(CloseValue(b))])
    ELSE IF kind = "noclose" THEN Obj([k \in {"volume"} |-> Num(CloseValue(b))])
    ELSE IF kind = "scalar" THEN Num(ScalarValue(b))
    ELSE IF kind = "string" THEN Str
    ELSE Null

BenchSection(kinds) ==
    Obj([b \in {c \in Range(BENCHMARKS) : kinds[c] # "absent"} |-> BenchValue(b, kinds[b])])

BenchSections ==
    { BenchSection(kinds) :
        kinds \in { f \in [Range(BENCHMARKS) -> BENCH_KINDS] :
                      Cardinality({b \in Range(BENCHMARKS) : f[b] # "record"}) <= MaxAbsent } }

\* A document: each of its three keys is there or not; a section that is
\* there is a mapping or null.
Document(has_date, tickers, benchmarks) ==
    Obj([k \in ({"date" : x \in {1} \cap (IF has_date THEN {1} ELSE {})}
                \cup {"tickers" : x \in {1} \cap (IF tickers.type = "string" THEN {} ELSE {1})}
                \cup {"benchmarks" : x \in {1} \cap (IF benchmarks.type = "string" THEN {} ELSE {1})})
          |-> IF k = "date" THEN Num(1)
              ELSE IF k = "tickers" THEN tickers ELSE benchmarks])

\* Str stands for "the key is absent" in the two section arguments.
Documents ==
    { Document(d, t, b) :
        d \in BOOLEAN, t \in TickerSections \cup {Null, Str}, b \in BenchSections \cup {Null, Str} }

InitParse ==
    /\ RunIdle
    /\ table = <<>> /\ target_col = 0 /\ result = <<>>
    /\ stage = "input"
    /\ snapshot \in Documents

GenParse ==
    /\ stage = "input"
    /\ result' = gen_parse_single_json(snapshot)
    /\ stage' = "gen"
    /\ UNCHANGED <<runVars, table, target_col, snapshot, models_dir, now>>

PrepParse ==
    /\ stage = "input"
    /\ result' = prep_parse_single_json(snapshot)
    /\ stage' = "prepare"
    /\ UNCHANGED <<runVars, table, target_col, snapshot, models_dir, now>>

NextParse == GenParse \/ PrepParse

SpecParse == InitParse /\ [][NextParse]_vars


Parsed == stage \in {"gen", "prepare"}

\* The sections of the document that are there are mappings, and so are the
\* entries of the tracked tickers.
SectionsAreMappings ==
    /\ "tickers" \in DOMAIN snapshot.v =>
          /\ snapshot.v["tickers"].type = "object"
          /\ \A t \in DOMAIN snapshot.v["tickers"].v :
                snapshot.v["tickers"].v[t].type = "object"
    /\ "benchmarks" \in DOMAIN snapshot.v => snapshot.v["benchmarks"].type = "object"

FixedKeys ==
    { "date",
      "OKLO_close", "OKLO_pct_change", "OKLO_streak", "OKLO_confidence",
      "OKLO_predicted_next_day_pct", "OKLO_dip_onset_prob", "OKLO_dip_exhaustion_prob",
      "RKLB_close", "RKLB_pct_change", "RKLB_streak", "RKLB_confidence",
      "RKLB_predicted_next_day_pct", "RKLB_dip_onset_prob", "RKLB_dip_exhaustion_prob",
      "SPY_close", "VIXY_close", "VIXM_close", "VIX_close" }

\* What the document holds for field f of ticker t, NA when it holds nothing.
FieldInDocument(t, f) ==
    IF /\ "tickers" \in DOMAIN snapshot.v
       /\ t \in DOMAIN snapshot.v["tickers"].v
       /\ f \in DOMAIN snapshot.v["tickers"].v[t].v
    THEN snapshot.v["tickers"].v[t].v[f].n
    ELSE NA

\* C11: for every snapshot document either parser returns a row with exactly
\* the nineteen fixed keys, whichever optional fields, entries or sections
\* are there; a field that is there arrives under its own key, one that is
\* not is the missing-value marker.
C11_FixedColumnSet ==
    (Parsed /\ SectionsAreMappings) =>
        /\ ~result.raised
        /\ DOMAIN result.row = FixedKeys
        /\ \A t \in Range(TICKERS) : \A f \in Range(TICKER_FIELDS) :
              result.row[t \o "_" \o f] = FieldInDocument(t, f)
        /\ "date" \notin DOMAIN snapshot.v => result.row["date"] = NA

C11_Witness ==
    /\ stage = "prepare"
    /\ ~result.raised
    /\ "benchmarks" \notin DOMAIN snapshot.v
    /\ "tickers" \in DOMAIN snapshot.v
    /\ DOMAIN snapshot.v["tickers"].v = {"RKLB"}
    /\ Cardinality(DOMAIN result.row) = FEATURE_COUNT + 1
    /\ result.row["OKLO_close"] = NA /\ result.row["VIX_close"] = NA
    /\ result.row["RKLB_close"] # NA

\* C13 as stated: parsing fails exactly when the document has no `date`
\* key, never because something optional is missing.
C13_FailsIffNoDate ==
    (Parsed /\ SectionsAreMappings) =>
        (result.raised <=> "date" \notin DOMAIN snapshot.v)


\* ------------------------------------------------ building feature tables
\* What one listed file gives a builder: it is there or gone by the time it
\* is opened, json.load fails on it or returns doc.
\* What the document says of SPY: one of BENCH_KINDS, or it has no
\* `benchmarks` key at all.  The other benchmarks are sub-records.
BUILD_BENCH == BENCH_KINDS \cup {"nosection"}

BuildBench(kind) ==
    IF kind = "nosection" THEN Str
    ELSE BenchSection([b \in Range(BENCHMARKS) |-> IF b = "SPY" THEN kind ELSE "record"])

\* doc with d as the value of its `date` key, if it has the key.
WithDate(doc, d) == Obj([k \in DOMAIN doc.v |-> IF k = "date" THEN Num(d) ELSE doc.v[k]])

BuildKinds ==
    { [state |-> "json", date |-> d, bench |-> "record"] : d \in 0..MaxDate }
    \cup { [state |-> "json", date |-> d, bench |-> b] :
              d \in {1, MaxDate}, b \in BUILD_BENCH \ {"record"} }
    \cup { [state |-> s, date |-> 1, bench |-> "record"] : s \in {"corrupt", "gone"} }

OddKind(k) == k.state # "json" \/ k.date = 0 \/ k.bench # "record"

BuildFile(k) ==
    [ exists  |-> k.state # "gone",
      corrupt |-> k.state = "corrupt",
      doc     |-> IF k.state = "json"
                  THEN WithDate(Document(k.date # 0, TickerSection({}), BuildBench(k.bench)),
                                k.date)
                  ELSE EmptyObj ]

\* A directory is the sequence of its files in name order, each named by its
\* kind; Contents gives what the files hold.
BuildDirs ==
    UNION { { f \in [1..n -> BuildKinds] :
                Cardinality({p \in 1..n : OddKind(f[p])}) <= MaxOdd }
            : n \in 0..MaxBuildFiles }

Contents(dir) == [p \in 1..Len(dir) |-> BuildFile(dir[p])]

\* pd.to_datetime of a `date` cell: None becomes NaT.
to_datetime(x) == IF x = NA THEN NaT ELSE x

\* The row of a frame made from a parsed row: its index, the file it came
\* from and its cells under COLUMNS.
FrameRow(row, src) ==
    [ date |-> to_datetime(row["date"]), src |-> src,
      cells |-> [c \in 1..NumCols |-> row[COLUMNS[c]]] ]

CellsOf(t) == [r \in 1..Len(t) |-> t[r].cells]

WithCells(t, cells) ==
    [r \in 1..Len(t) |-> [date |-> t[r].date, src |-> t[r].src, cells |-> cells[r]]]

\* prepare_data_subset, lines 54-58: a file that is gone is passed over, any
\* other file is parsed, and what parsing raises leaves the function.
subset_raises(files) ==
    \E p \in 1..Len(files) :
        files[p].exists /\ (files[p].corrupt \/ gen_parse_single_json(files[p].doc).raised)

subset_rows(files) ==
    { FrameRow(gen_parse_single_json(files[p].doc).row, p) :
        p \in {q \in 1..Len(files) : files[q].exists} }

\* prepare_data_subset, lines 50-73.  The tables it may return: one per order
\* sort_index may give rows of equal date.
build_subset(files) ==
    IF subset_raises(files) THEN [raised |-> TRUE, error |-> "parse", tables |-> {}]
    ELSE IF subset_rows(files) = {}
    THEN [raised |-> TRUE, error |-> "ValueError", tables |-> {}]
    ELSE [ raised |-> FALSE, error |-> "",
           tables |-> { WithCells(t, gen_clean(CellsOf(t))) :
                          t \in SortIndex(subset_rows(files)) } ]

\* process_all_data, lines 70-77: a file whose parse raises is reported and
\* passed over.
all_rows(files) ==
    { FrameRow(prep_parse_single_json(files[p].doc).row, p) :
        p \in { q \in 1..Len(files) :
                  /\ files[q].exists /\ ~files[q].corrupt
                  /\ ~prep_parse_single_json(files[q].doc).raised } }

\* process_all_data run as a script, lines 53-100: with no file listed it
\* returns at once; with no row, df['date'] of the empty frame raises
\* KeyError; else it writes the rows sorted by date.
process_all_data(files) ==
    IF Len(files) = 0 THEN [exit |-> 0, written |-> FALSE, tables |-> {<<>>}]
    ELSE IF all_rows(files) = {} THEN [exit |-> 1, written |-> FALSE, tables |-> {<<>>}]
    ELSE [exit |-> 0, written |-> TRUE, tables |-> SortIndex(all_rows(files))]

\* train.load_and_preprocess_data, lines 17-33, of the table read back.
load_and_preprocess_data(csv) == WithCells(csv, train_clean(CellsOf(csv)))

\* predict.make_prediction, lines 32-35, of the table read back.
predict_load(csv) == WithCells(csv, predict_clean(CellsOf(csv)))

InitBuild ==
    /\ raw \in BuildDirs
    /\ pc = "off" /\ all_files = <<>> /\ i = 0 /\ df = <<>>
    /\ output_dir = <<>> /\ status = <<>> /\ trained_on = <<>>
    /\ table = <<>> /\ target_col = 0 /\ result = <<>> /\ snapshot = <<>>
    /\ models_dir = <<>> /\ now = 0
    /\ stage = "input"

\* generate_historical_rnn_predictions.prepare_data_subset over the directory
GenBuild ==
    /\ stage = "input"
    /\ \E built \in {build_subset(Contents(raw))} :
           /\ result' = [raised |-> built.raised, error |-> built.error]
           /\ IF built.raised THEN df' = <<>> ELSE df' \in built.tables
    /\ stage' = "gen"
    /\ UNCHANGED <<raw, pc, all_files, i, output_dir, status, trained_on,
                   table, target_col, snapshot, models_dir, now>>

\* python prepare_data.py: table is historical_features.csv
PrepBuild ==
    /\ stage = "input"
    /\ \E built \in {process_all_data(Contents(raw))} :
           /\ result' = [exit |-> built.exit, written |-> built.written]
           /\ table' \in built.tables
    /\ stage' = "prepare"
    /\ UNCHANGED <<raw, pc, all_files, i, df, output_dir, status, trained_on,
                   target_col, snapshot, models_dir, now>>

\* python train.py, after prepare_data.py wrote the table
TrainLoad ==
    /\ stage = "prepare" /\ result.written
    /\ df' = load_and_preprocess_data(table)
    /\ stage' = "train"
    /\ UNCHANGED <<raw, pc, all_files, i, output_dir, status, trained_on,
                   table, target_col, result, snapshot, models_dir, now>>

\* python predict.py, after prepare_data.py wrote the table
PredictLoad ==
    /\ stage = "prepare" /\ result.written
    /\ df' = predict_load(table)
    /\ stage' = "predict"
    /\ UNCHANGED <<raw, pc, all_files, i, output_dir, status, trained_on,
                   table, target_col, result, snapshot, models_dir, now>>

NextBuild == GenBuild \/ PrepBuild \/ TrainLoad \/ PredictLoad

SpecBuild == InitBuild /\ [][NextBuild]_vars


Built == stage \in {"gen", "prepare", "train", "predict"}

\* What the benchmark rule gives for SPY in a document of the given kind.
SpyByRule(kind) ==
    IF kind = "record" THEN CloseValue("SPY")
    ELSE IF kind = "scalar" THEN ScalarValue("SPY")
    ELSE NA

\* No file that gave a row of t has a value for SPY.
NoRowHasSpy(t) == \A r \in 1..Len(t) : SpyByRule(raw[t[r].src].bench) = NA

SpyColumn == IndexOf(COLUMNS, "SPY_close")

\* C12: the parsed row holds for a benchmark the close of its sub-record,
\* the value itself when it is a bare number, and the missing marker
\* otherwise (no close, a string, null, no entry, no `benchmarks` key); in a
\* cleaned table none of whose rows has the benchmark, the column is 0 in
\* every row.
C12_BenchmarkRule ==
    /\ stage = "prepare" =>
          \A r \in 1..Len(table) : table[r].cells[SpyColumn] = SpyByRule(raw[table[r].src].bench)
    /\ (stage \in {"gen", "train", "predict"} /\ NoRowHasSpy(df)) =>
          \A r \in 1..Len(df) : df[r].cells[SpyColumn] = 0

C12_Witness ==
    /\ stage = "train"
    /\ Len(df) >= 2
    /\ NoRowHasSpy(df)
    /\ \E r \in 1..Len(df) : raw[df[r].src].bench = "nosection"
    /\ \E r \in 1..Len(table) : table[r].cells[SpyColumn] = NA
    /\ \A r \in 1..Len(df) : df[r].cells[SpyColumn] = 0


\* The files a row can be parsed from.
Usable == {p \in 1..Len(raw) : raw[p].state = "json"}

SourcesOf(t) == {t[r].src : r \in 1..Len(t)}

\* C14 as stated: a file that cannot be parsed is passed over and the files
\* that can be parsed still form the table; a build fails only when no file
\* can be parsed, in prepare_data_subset as in process_all_data.
C14_SkipsUnparseable ==
    /\ stage = "gen" =>
          /\ result.raised => Usable = {}
          /\ ~result.raised => SourcesOf(df) = Usable
    /\ stage = "prepare" =>
          /\ result.exit # 0 => Usable = {}
          /\ result.written => SourcesOf(table) = Usable

\* C15 as stated: a build with no usable row fails: prepare_data_subset
\* raises, the prepare-data stage exits non-zero, with no file listed as with
\* no file parsed.
C15_EmptyHistoryFails ==
    Usable = {} =>
        /\ stage = "gen" => result.raised
        /\ stage = "prepare" => result.exit # 0 /\ ~result.written

\* C16 as stated: a table handed to scaling and windowing is sorted by
\* ascending date and no two of its rows have the same date (stated of the
\* rows that have a date).
C16_SortedNoDuplicates ==
    stage \in {"gen", "train", "predict"} =>
        \A r, s \in 1..Len(df) :
            (r < s /\ df[r].date # NaT /\ df[s].date # NaT) => df[r].date < df[s].date


\* ------------------------------------------------- train/validation split
\* Windows are named by their position in X.
\* sklearn train_test_split(X, y, test_size=0.2, random_state=42):
\* n_test = ceil(0.2 * n), n_train = n - n_test, ValueError when n_train = 0;
\* which windows are held out is fixed by the seed, any n_test of them here.
train_test_split(X) ==
    LET n == Len(X)
        n_test == (n + 4) \div 5
        n_train == n - n_test
    IN  IF n_train = 0
        THEN {[raised |-> TRUE, validation |-> FALSE, train |-> {}, val |-> {}]}
        ELSE { [raised |-> FALSE, validation |-> TRUE, train |-> Range(X) \ V, val |-> V] :
                 V \in {W \in SUBSET Range(X) : Cardinality(W) = n_test} }

\* train_and_predict, lines 127-135: the last windows from int(len(X) * 0.8)
\* on are held out when there are 5 or more, none otherwise.
gen_split(X) ==
    IF Len(X) >= 5
    THEN LET split_idx == (Len(X) * 8) \div 10
         IN  [ raised |-> FALSE, validation |-> TRUE,
               train |-> Range(Slice(X, 0, split_idx)),
               val |-> Range(Slice(X, split_idx, Len(X))) ]
    ELSE [raised |-> FALSE, validation |-> FALSE, train |-> Range(X), val |-> {}]

\* Both trainers reach their split with one window at least.
InitSplit ==
    /\ RunIdle
    /\ table \in { [k \in 1..n |-> k] : n \in 1..MaxWindows }
    /\ target_col = 0 /\ result = <<>> /\ snapshot = <<>>
    /\ stage = "input"

TrainSplit ==
    /\ stage = "input"
    /\ result' \in train_test_split(table)
    /\ stage' = "train"
    /\ UNCHANGED <<runVars, table, target_col, snapshot, models_dir, now>>

GenSplit ==
    /\ stage = "input"
    /\ result' = gen_split(table)
    /\ stage' = "gen"
    /\ UNCHANGED <<runVars, table, target_col, snapshot, models_dir, now>>

NextSplit == TrainSplit \/ GenSplit

SpecSplit == InitSplit /\ [][NextSplit]_vars

\* C17 as stated: in train.main and in train_and_predict the split never
\* fails; of 5 or more windows a fifth (rounded up) is held out, training and
\* validation sets disjoint, non-empty and covering all windows; of fewer
\* than 5 windows all are trained on and there is no validation set.
C17_SplitRule ==
    stage \in {"train", "gen"} =>
        /\ ~result.raised
        /\ result.train \cup result.val = Range(table)
        /\ result.train \cap result.val = {}
        /\ Len(table) >= 5 =>
              /\ result.validation /\ result.train # {}
              /\ Cardinality(result.val) = (Len(table) + 4) \div 5
        /\ Len(table) < 5 => ~result.validation /\ result.val = {}


\* ------------------------------------------------ scaling and prediction
\* A scaled cell is the fraction <<numerator, denominator>>.
SameFraction(a, b) == a[1] * b[2] = b[1] * a[2]

ColMin(tbl, c) == CHOOSE m \in {tbl[r][c] : r \in 1..Len(tbl)} :
                      \A r \in 1..Len(tbl) : m <= tbl[r][c]
ColMax(tbl, c) == CHOOSE m \in {tbl[r][c] : r \in 1..Len(tbl)} :
                      \A r \in 1..Len(tbl) : m >= tbl[r][c]

\* MinMaxScaler().fit: per column the least and the greatest cell.
scaler_fit(tbl) ==
    [c \in 1..NumCols |-> [data_min |-> ColMin(tbl, c), data_max |-> ColMax(tbl, c)]]

\* Mutant of DataRange: a constant column is divided by its range, 0.
DataRange_raw(st) == st.data_max - st.data_min

\* The divisor of a column: its range, 1 when the column is constant.
DataRange(st) == IF st.data_max = st.data_min THEN 1 ELSE st.data_max - st.data_min

\* scaler.transform(rows)
scaler_transform(scaler, rows) ==
    [r \in 1..Len(rows) |->
        [c \in 1..NumCols |-> <<rows[r][c] - scaler[c].data_min, DataRange(scaler[c])>>]]

\* scaler.inverse_transform(dummy_array)[0, col - 1] where the dummy row
\* holds value in column col.
scaler_inverse(scaler, col, value) ==
    LET st == scaler[col]
    IN  <<value[1] * DataRange(st) + st.data_min * value[2], value[2]>>

\* df.tail(n), data[-n:]
LastRows(s, n) == Slice(s, Max(0, Len(s) - n), Len(s))

\* df.columns.get_loc(target_column_name), 1-based
TargetColumn == IndexOf(COLUMNS, "OKLO_predicted_next_day_pct")

\* What the fitted network may return for an input: 0 or 1/2.
ModelOutputs == {<<0, 1>>, <<1, 2>>}

NoPrediction == [raised |-> FALSE, none |-> TRUE, input |-> <<>>, output |-> <<0, 1>>, final |-> <<0, 1>>]
PredictRaised == [raised |-> TRUE, none |-> FALSE, input |-> <<>>, output |-> <<0, 1>>, final |-> <<0, 1>>]

\* train_and_predict, lines 101-161, on a table of one row at least.
train_and_predict(data, out) ==
    LET scaler == scaler_fit(data)
        scaled_data == scaler_transform(scaler, data)
    IN  IF returns_none(scaled_data) THEN NoPrediction
        ELSE [ raised |-> FALSE, none |-> FALSE,
               input |-> LastRows(scaled_data, TIMESTEPS),
               output |-> out,
               final |-> scaler_inverse(scaler, TargetColumn, out) ]

\* ml/models: nothing saved, or the model and the scaler of a training.
NoArtifacts == [saved |-> FALSE, scaler |-> <<>>]
Artifacts(scaler) == [saved |-> TRUE, scaler |-> scaler]

\* train.main, lines 43-103: what it leaves in ml/models and how it ends.
\* An empty table fails in fit_transform, no window returns early, one
\* window fails in train_test_split; else model and scaler are saved.
train_main(data, dir) ==
    IF Len(data) = 0 THEN [exit |-> 1, dir |-> dir]
    ELSE IF ~train_main_sequences(scaler_transform(scaler_fit(data), data), TargetColumn - 1).proceeds
    THEN [exit |-> 0, dir |-> dir]
    ELSE IF \E s \in train_test_split(train_main_sequences(
                        scaler_transform(scaler_fit(data), data), TargetColumn - 1).X) : s.raised
    THEN [exit |-> 1, dir |-> dir]
    ELSE [exit |-> 0, dir |-> Artifacts(scaler_fit(data))]

\* predict.make_prediction, lines 15-54: loading fails without artifacts,
\* reshaping fails with fewer than TIMESTEPS rows.
make_prediction(data, dir, out) ==
    IF ~dir.saved \/ Len(data) < TIMESTEPS THEN PredictRaised
    ELSE [ raised |-> FALSE, none |-> FALSE,
           input |-> scaler_transform(dir.scaler, LastRows(data, TIMESTEPS)),
           output |-> out,
           final |-> scaler_inverse(dir.scaler, TargetColumn, out) ]

InitPredict ==
    /\ raw = <<>> /\ pc = "off" /\ all_files = <<>> /\ i = 0 /\ df = <<>>
    /\ output_dir = <<>> /\ status = <<>> /\ trained_on = <<>>
    /\ table \in WinTables
    /\ models_dir \in {NoArtifacts} \cup {Artifacts(scaler_fit(t)) : t \in WinTables \ {<<>>}}
    /\ target_col = TargetColumn - 1 /\ result = <<>> /\ snapshot = <<>> /\ now = 0
    /\ stage = "input"

\* train_and_predict for one target date with table as its training table
GenPredict ==
    /\ stage = "input"
    /\ Len(table) > 0
    /\ \E out \in ModelOutputs : result' = train_and_predict(table, out)
    /\ stage' = "gen"
    /\ UNCHANGED <<runVars, table, target_col, snapshot, models_dir, now>>

\* python train.py OKLO
TrainMain ==
    /\ stage = "input"
    /\ \E done \in {train_main(table, models_dir)} :
           /\ models_dir' = done.dir
           /\ result' = [exit |-> done.exit]
    /\ stage' = "trained"
    /\ UNCHANGED <<runVars, table, target_col, snapshot, now>>

\* python predict.py OKLO, run after train.py ended with status 0
MakePrediction ==
    /\ stage = "trained" /\ result.exit = 0
    /\ \E out \in ModelOutputs : result' = make_prediction(table, models_dir, out)
    /\ stage' = "predict"
    /\ UNCHANGED <<runVars, table, target_col, snapshot, models_dir, now>>

NextPredict == GenPredict \/ TrainMain \/ MakePrediction

SpecPredict == InitPredict /\ [][NextPredict]_vars


Predicted == stage \in {"gen", "predict"} /\ ~result.raised /\ ~result.none

\* Cell c of row r of the table, scaled by the table's own least and
\* greatest cell of column c.
OwnScaled(r, c) ==
    <<table[r][c] - ColMin(table, c),
      IF ColMax(table, c) = ColMin(table, c) THEN 1 ELSE ColMax(table, c) - ColMin(table, c)>>

\* C18 as stated: a prediction is computed from exactly the last TIMESTEPS
\* rows of the table, in table order, scaled by the scaler fitted on that
\* table, and the model output is mapped back with the target column's
\* statistics of that same scaler, by train_and_predict as by make_prediction.
C18_LastRowsOwnScaler ==
    Predicted =>
        /\ Len(result.input) = TIMESTEPS
        /\ \A k \in 1..TIMESTEPS : \A c \in 1..NumCols :
              SameFraction(result.input[k][c], OwnScaled(Len(table) - TIMESTEPS + k, c))
        /\ SameFraction(result.final,
              <<result.output[1] * OwnScaled(1, TargetColumn)[2]
                    + ColMin(table, TargetColumn) * result.output[2],
                result.output[2]>>)


\* ------------------------------------------------- the prediction store
\* The wall clock counts half days; a file name of rank n names day n.
DayOf(t) == t \div 2

\* The first day a progressive run can write a record for.
FirstTarget == TIMESTEPS + 2

\* get_training_data_metadata, for a table with one row per listed file,
\* indexed by the day its name gives.
get_training_data_metadata(files) ==
    LET lo == CHOOSE d \in Range(files) : \A e \in Range(files) : d <= e
        hi == CHOOSE d \in Range(files) : \A e \in Range(files) : d >= e
    IN  [ training_data_sources |-> SortNames({f \in Range(files) : lo <= f /\ f <= hi}),
          training_period |-> [start_date |-> lo, end_date |-> hi],
          training_samples |-> Len(files) ]

\* save_daily_prediction, lines 69-90: the record for today.
DailyObj(predictions_data) ==
    [ date |-> DayOf(now),
      created_at |-> now,
      predictions |-> predictions_data,
      metadata |-> [ sources |-> get_training_data_metadata(all_files),
                     feature_count |-> FEATURE_COUNT,
                     model_version |-> "v1",
                     timesteps |-> TIMESTEPS ],
      schema_version |-> "1.0" ]

\* data/raw holds MaxFiles well-formed files; the clock starts on the first
\* day a record can be written for.
InitStore ==
    /\ raw = [k \in 1..MaxFiles |-> FileOf(k, "good")]
    /\ all_files = [k \in 1..MaxFiles |-> k]
    /\ pc = "off" /\ i = 0 /\ df = <<>> /\ status = <<>> /\ trained_on = <<>>
    /\ output_dir = <<>>
    /\ table = <<>> /\ target_col = 0 /\ result = <<>> /\ snapshot = <<>>
    /\ models_dir = <<>>
    /\ now = 2 * FirstTarget
    /\ stage = "store"

Tick ==
    /\ stage = "store"
    /\ now < 2 * FirstTarget + MaxClock
    /\ now' = now + 1
    /\ UNCHANGED <<runVars, table, target_col, result, stage, snapshot, models_dir>>

\* main, lines 250-269, in a progressive run over data/raw: the record of a
\* target date is written.
GenSave ==
    /\ stage = "store"
    /\ \E d \in FirstTarget..Len(all_files) :
           output_dir' = WriteFile(output_dir, all_files[d],
                PredictionObj(all_files[d], Range(TICKERS), TrainingFiles(all_files, d - 1)))
    /\ UNCHANGED <<raw, pc, all_files, i, df, status, trained_on, pureVars>>

\* save_daily_prediction, lines 56-98, with the predictions of a pipeline run
SaveDaily ==
    /\ stage = "store"
    /\ \E predictions_data \in SUBSET Range(TICKERS) \ {{}} :
           output_dir' = WriteFile(output_dir, DayOf(now), DailyObj(predictions_data))
    /\ UNCHANGED <<raw, pc, all_files, i, df, status, trained_on, pureVars>>

NextStore == Tick \/ GenSave \/ SaveDaily

SpecStore == InitStore /\ [][NextStore]_vars

\* C19 as stated: a record that exists in the store is never replaced or
\* modified by a later write of either writer.  (One record per date at most
\* holds by the store's naming: a record's file is named by its date.)
C19_AppendOnly ==
    [][\A d \in DOMAIN output_dir :
          d \in DOMAIN output_dir' /\ output_dir'[d] = output_dir[d]]_vars


\* ------------------------------------------------------- the pipeline
\* run_pipeline.main.  pc is the stage about to run, i the index of the
\* ticker in the stage's loop, table the feature table prepare_data wrote,
\* models_dir the artifacts of each ticker, status the commands run so far,
\* result the predictions collected and the predictions file.
PipeTables == { [r \in 1..n |-> [c \in 1..NumCols |-> r % 2]] : n \in 0..MaxRows }

\* What an earlier training may have left in ml/models.
OldArtifacts == Artifacts(scaler_fit(<<<<0, 0>>, <<1, 1>>>>))

\* Mutant of run_command: the exit code of the command is not looked at.
run_command_unchecked(exit, next) == next

\* run_command, lines 26-32: a command that ends non-zero raises
\* RuntimeError, which nothing in main catches.
run_command(exit, next) == IF exit # 0 THEN "aborted" ELSE next

Ran(step, ticker, exit) == Append(status, [step |-> step, ticker |-> ticker, exit |-> exit])

InitPipe ==
    /\ raw = <<>> /\ all_files = <<>> /\ df = <<>> /\ trained_on = <<>>
    /\ output_dir = <<>>
    /\ pc = "prepare" /\ i = 0 /\ status = <<>>
    /\ table \in PipeTables
    /\ models_dir \in [Range(TICKERS) -> {NoArtifacts, OldArtifacts}]
    /\ result = [predictions |-> {}, written |-> FALSE, latest |-> {}]
    /\ target_col = TargetColumn - 1 /\ snapshot = <<>> /\ now = 0
    /\ stage = "pipe"

\* line 47: prepare_data, which leaves table or ends non-zero
PipePrepare ==
    /\ stage = "pipe" /\ pc = "prepare"
    /\ \E exit \in {0, 1} :
           /\ status' = Ran("prepare", "", exit)
           /\ pc' = run_command(exit, "train")
    /\ UNCHANGED <<raw, all_files, i, df, output_dir, trained_on, pureVars>>

\* lines 52-53: train.py for the next ticker
PipeTrain ==
    /\ stage = "pipe" /\ pc = "train"
    /\ \E done \in {train_main(table, models_dir[TICKERS[i + 1]])} :
           /\ models_dir' = [models_dir EXCEPT ![TICKERS[i + 1]] = done.dir]
           /\ status' = Ran("train", TICKERS[i + 1], done.exit)
           /\ pc' = run_command(done.exit, IF i + 1 < Len(TICKERS) THEN "train" ELSE "predict")
    /\ i' = IF i + 1 < Len(TICKERS) THEN i + 1 ELSE 0
    /\ UNCHANGED <<raw, all_files, df, output_dir, trained_on,
                   table, target_col, result, stage, snapshot, now>>

\* lines 57-65: predict.py for the next ticker; its output is parsed, an
\* output that does not parse is passed over.
PipePredict ==
    /\ stage = "pipe" /\ pc = "predict"
    /\ \E out \in ModelOutputs, parses \in BOOLEAN :
         \E p \in {make_prediction(table, models_dir[TICKERS[i + 1]], out)} :
           /\ status' = Ran("predict", TICKERS[i + 1], IF p.raised THEN 1 ELSE 0)
           /\ pc' = run_command(IF p.raised THEN 1 ELSE 0,
                                IF i + 1 < Len(TICKERS) THEN "predict" ELSE "write")
           /\ result' = IF ~p.raised /\ parses
                        THEN [result EXCEPT !.predictions = @ \cup {TICKERS[i + 1]}]
                        ELSE result
    /\ i' = IF i + 1 < Len(TICKERS) THEN i + 1 ELSE 0
    /\ UNCHANGED <<raw, all_files, df, output_dir, trained_on,
                   table, target_col, stage, snapshot, models_dir, now>>

\* lines 68-72: latest_ml_predictions.json is written
PipeWrite ==
    /\ stage = "pipe" /\ pc = "write"
    /\ result' = [result EXCEPT !.written = TRUE, !.latest = result.predictions]
    /\ pc' = "save_daily"
    /\ UNCHANGED <<raw, all_files, i, df, output_dir, status, trained_on,
                   table, target_col, stage, snapshot, models_dir, now>>

\* line 79: save_daily_prediction.main, which saves nothing when the file
\* holds no prediction
PipeSaveDaily ==
    /\ stage = "pipe" /\ pc = "save_daily"
    /\ output_dir' = IF result.latest = {} THEN output_dir
                     ELSE WriteFile(output_dir, DayOf(now),
                              [date |-> DayOf(now), created_at |-> now,
                               predictions |-> result.latest])
    /\ status' = Ran("save_daily", "", 0)
    /\ pc' = "done"
    /\ UNCHANGED <<raw, all_files, i, df, trained_on, pureVars>>

NextPipe == PipePrepare \/ PipeTrain \/ PipePredict \/ PipeWrite \/ PipeSaveDaily

SpecPipe == InitPipe /\ [][NextPipe]_vars

\* The prediction step of ticker t ended in a failure to load its artifacts.
LoadFailed(t) ==
    /\ ~models_dir[t].saved
    /\ \E k \in 1..Len(status) :
          status[k].step = "predict" /\ status[k].ticker = t /\ status[k].exit # 0

\* C20 as stated: when loading the artifacts fails for one ticker and the
\* other ticker's artifacts are there and the table has TIMESTEPS rows, the
\* run still writes the predictions output, and it was given a prediction
\* for the other ticker whenever that ticker's output parsed.
C20_OtherTickerPredicted ==
    \A t, u \in Range(TICKERS) :
        ( /\ pc \in {"aborted", "done"}
          /\ t # u /\ LoadFailed(t)
          /\ models_dir[u].saved /\ Len(table) >= TIMESTEPS ) =>
            /\ result.written
            /\ \E k \in 1..Len(status) :
                  status[k].step = "predict" /\ status[k].ticker = u /\ status[k].exit = 0


\* ------------------------------------------------- the target column
\* df.columns of a table built from parsed rows, in the order the parser
\* assigns the keys.
FEATURE_NAMES ==
    [k \in 1..FEATURE_COUNT |->
        IF k <= Len(TICKERS) * Len(TICKER_FIELDS)
        THEN TICKERS[((k - 1) \div Len(TICKER_FIELDS)) + 1] \o "_"
                \o TICKER_FIELDS[((k - 1) % Len(TICKER_FIELDS)) + 1]
        ELSE BENCHMARKS[k - Len(TICKERS) * Len(TICKER_FIELDS)] \o "_close"]

\* The tables a stage may be given: the columns of FEATURE_NAMES but for at
\* most MaxAbsent of them.
ColumnLists ==
    { SelectSeq(FEATURE_NAMES, LAMBDA name : name \notin D) :
        D \in UpTo(Range(FEATURE_NAMES), MaxAbsent) }

\* The ticker symbols a stage may be started with.
SYMBOLS == Range(TICKERS) \cup {"TSLA"}

TARGET_FEATURE == "predicted_next_day_pct"

target_column_name(ticker) == ticker \o "_" \o TARGET_FEATURE

\* df.columns.get_loc(name): KeyError when the table has no such column.
get_loc(columns, name) ==
    IF name \in Range(columns)
    THEN [raised |-> FALSE, loc |-> IndexOf(columns, name) - 1]
    ELSE [raised |-> TRUE, loc |-> 0]

\* train_and_predict, lines 108-112 and 148: an absent target column is
\* added as a column of zeros, with a warning.
gen_target(columns, ticker) ==
    LET name == target_column_name(ticker)
        absent == name \notin Range(columns)
        cols == IF absent THEN Append(columns, name) ELSE columns
    IN  [ raised |-> get_loc(cols, name).raised, warned |-> absent,
          zeroed |-> absent, columns |-> cols, loc |-> get_loc(cols, name).loc ]

\* train.main, lines 60-61
train_target(columns, ticker) ==
    [ raised |-> get_loc(columns, target_column_name(ticker)).raised, warned |-> FALSE,
      zeroed |-> FALSE, columns |-> columns,
      loc |-> get_loc(columns, target_column_name(ticker)).loc ]

\* predict.make_prediction, lines 37-38
predict_target(columns, ticker) ==
    [ raised |-> get_loc(columns, target_column_name(ticker)).raised, warned |-> FALSE,
      zeroed |-> FALSE, columns |-> columns,
      loc |-> get_loc(columns, target_column_name(ticker)).loc ]

\* table is df.columns, target_col the ticker symbol the stage is given.
InitTarget ==
    /\ RunIdle
    /\ table \in ColumnLists
    /\ target_col \in SYMBOLS
    /\ result = <<>> /\ snapshot = <<>>
    /\ stage = "input"

GenTarget ==
    /\ stage = "input"
    /\ result' = gen_target(table, target_col)
    /\ stage' = "gen"
    /\ UNCHANGED <<runVars, table, target_col, snapshot, models_dir, now>>

TrainTarget ==
    /\ stage = "input"
    /\ result' = train_target(table, target_col)
    /\ stage' = "train"
    /\ UNCHANGED <<runVars, table, target_col, snapshot, models_dir, now>>

PredictTarget ==
    /\ stage = "input"
    /\ result' = predict_target(table, target_col)
    /\ stage' = "predict"
    /\ UNCHANGED <<runVars, table, target_col, snapshot, models_dir, now>>

NextTarget == GenTarget \/ TrainTarget \/ PredictTarget

SpecTarget == InitTarget /\ [][NextTarget]_vars

\* C21 as stated: when the table has no target column for the ticker, each
\* of the three stages goes on with a column of zeros in its place and logs
\* a warning; none fails.
C21_AbsentTargetIsZero ==
    ( /\ stage \in {"gen", "train", "predict"}
      /\ target_column_name(target_col) \notin Range(table) ) =>
        /\ ~result.raised
        /\ result.warned /\ result.zeroed
        /\ result.columns[result.loc + 1] = target_column_name(target_col)


\* ---------------------------------------------- provenance of a record
\* C22 as stated: the metadata of a record matches the table it was
\* produced from: training_data_sources is sorted and lists exactly the
\* files whose rows are in the table, training_samples is the number of
\* rows of the table, feature_count its number of columns.
C22_ProvenanceMatchesTable ==
    \A d \in DOMAIN output_dir :
        LET meta == output_dir[d].metadata
            used == trained_on[d]
        IN  /\ Range(meta.sources.training_data_sources) = {used[r].src : r \in 1..Len(used)}
            /\ \A j, k \in 1..Len(meta.sources.training_data_sources) :
                  j < k => meta.sources.training_data_sources[j]
                              < meta.sources.training_data_sources[k]
            /\ meta.sources.training_samples = Len(used)
            /\ meta.feature_count = FEATURE_COUNT


\* --------------------------------------- the iterations, in any order
\* The body of main's loop (lines 215-273) for position k, run as a unit of
\* its own with its own locals: status[k] holds the iteration's phase and
\* its df.  An iteration reads data/raw up to line 235 and writes its
\* record on lines 264-267; iterations of different positions interleave
\* between the two.  result is the set of positions at which
\* train_and_predict raises.
ParDirs ==
    UNION { { [k \in 1..n |-> FileOf(k, kinds[k])] :
                kinds \in { f \in [1..n -> FILE_KINDS] :
                              Cardinality({k \in 1..n : f[k] # "good"}) <= 1 } }
            : n \in 0..MaxFiles }

Positions == 1..(Len(all_files) - 1)

Pending == [phase |-> "pending", df |-> <<>>]
Over == [phase |-> "done", df |-> <<>>]

\* Mutant of store_record: the write leaves only its own record in the store.
store_record_alone(dir, name, content) == [n \in {name} |-> content]

\* lines 264-267: the record is written under its date's name.
store_record(dir, name, content) == WriteFile(dir, name, content)

InitPar ==
    /\ raw \in ParDirs
    /\ all_files = SortNames(DOMAIN raw)
    /\ pc = "par" /\ i = 0 /\ df = <<>>
    /\ output_dir = <<>> /\ trained_on = <<>>
    /\ status = [k \in 1..(Cardinality(DOMAIN raw) - 1) |-> Pending]
    /\ result \in {{}} \cup {{k} : k \in 1..(Cardinality(DOMAIN raw) - 1)}
    /\ table = <<>> /\ target_col = 0 /\ snapshot = <<>>
    /\ models_dir = <<>> /\ now = 0
    /\ stage = "par"

\* lines 215-235 of the iteration for position k
ParPrepare ==
    /\ stage = "par"
    /\ \E k \in Positions :
         /\ status[k].phase = "pending"
         /\ LET files == TrainingFiles(all_files, k)
            IN  IF \/ ~raw[all_files[k + 1]].valid
                   \/ Len(files) < MIN_TRAINING_FILES
                   \/ prepare_raises(files)
                THEN status' = [status EXCEPT ![k] = Over]
                ELSE \E t \in prepare_data_subset(files) :
                        status' = [status EXCEPT ![k] = [phase |-> "prepared", df |-> t]]
    /\ UNCHANGED <<raw, pc, all_files, i, df, output_dir, trained_on, pureVars>>

\* lines 237-273 of the iteration for position k
ParFinish ==
    /\ stage = "par"
    /\ \E k \in Positions :
         /\ status[k].phase = "prepared"
         /\ status' = [status EXCEPT ![k] = Over]
         /\ IF k \in result \/ returns_none(status[k].df)
            THEN UNCHANGED <<output_dir, trained_on>>
            ELSE /\ output_dir' = store_record(output_dir, all_files[k + 1],
                        PredictionObj(all_files[k + 1], Range(TICKERS),
                                      TrainingFiles(all_files, k)))
                 /\ trained_on' = WriteFile(trained_on, all_files[k + 1], status[k].df)
    /\ UNCHANGED <<raw, pc, all_files, i, df, pureVars>>

NextPar == ParPrepare \/ ParFinish

SpecPar == InitPar /\ [][NextPar]_vars

\* The positions for which the sequential run writes a record: the name is
\* a date, the prefix has MIN_TRAINING_FILES files, none of them corrupt,
\* TIMESTEPS + 1 of them there, and training does not raise.
SequentialSaves ==
    { k \in Positions :
        /\ raw[all_files[k + 1]].valid
        /\ k >= MIN_TRAINING_FILES
        /\ \A p \in 1..k : ~(raw[all_files[p]].exists /\ raw[all_files[p]].corrupt)
        /\ Cardinality({p \in 1..k : raw[all_files[p]].exists}) >= TIMESTEPS + 1
        /\ k \notin result }

AllOver == stage = "par" /\ \A k \in Positions : status[k].phase = "done"

\* C23: the iterations share no state: run in any order and interleaved,
\* they leave the records the sequential run leaves, one for each position
\* it saves at, each with the date of its position and with the files before
\* its position as sources; and no step of an iteration changes the record
\* of another date.
C23_OrderIndependent ==
    /\ AllOver =>
          /\ DOMAIN output_dir = {all_files[k + 1] : k \in SequentialSaves}
          /\ \A k \in SequentialSaves :
                LET rec == output_dir[all_files[k + 1]]
                IN  /\ rec.date = all_files[k + 1]
                    /\ rec.metadata.sources.training_data_sources = Slice(all_files, 0, k)
                    /\ rec.metadata.sources.training_samples = k
    /\ stage = "par" =>
          \A d \in DOMAIN output_dir :
              \E k \in Positions : d = all_files[k + 1] /\ status[k].phase = "done"

\* Two records are there, written in the order opposite to the sequential
\* one: the later date's iteration finished while the earlier was prepared.
C23_Witness ==
    /\ stage = "par"
    /\ \E j, k \in Positions :
          /\ j < k
          /\ status[j].phase = "prepared"
          /\ all_files[k + 1] \in DOMAIN output_dir
          /\ j \in SequentialSaves


\* ---------------------------------------------------- scaler round trip
\* Dense tables whose columns have ranges 0, 2, 3 and 5.
ScaleValues == {0, 2, 5}
ScaleTables == UNION { [1..n -> [1..NumCols -> ScaleValues]] : n \in 1..MaxFillRows }

\* scaler.inverse_transform(scaled)
scaler_inverse_transform(scaler, scaled) ==
    [r \in 1..Len(scaled) |->
        [c \in 1..NumCols |-> scaler_inverse(scaler, c, scaled[r][c])]]

InitScale ==
    /\ RunIdle
    /\ table \in ScaleTables
    /\ target_col = 0 /\ result = <<>> /\ snapshot = <<>>
    /\ stage = "input"

\* scaler = MinMaxScaler(); scaled_data = scaler.fit_transform(df)
FitTransform ==
    /\ stage = "input"
    /\ result' = [ scaler |-> scaler_fit(table),
                   scaled |-> scaler_transform(scaler_fit(table), table),
                   restored |-> <<>> ]
    /\ stage' = "scaled"
    /\ UNCHANGED <<runVars, table, target_col, snapshot, models_dir, now>>

\* scaler.inverse_transform of what fit_transform returned
InverseTransform ==
    /\ stage = "scaled"
    /\ result' = [result EXCEPT !.restored = scaler_inverse_transform(result.scaler, result.scaled)]
    /\ stage' = "restored"
    /\ UNCHANGED <<runVars, table, target_col, snapshot, models_dir, now>>

NextScale == FitTransform \/ InverseTransform

SpecScale == InitScale /\ [][NextScale]_vars

\* C24: fitting the scaler on a dense table, scaling the table and
\* inverse-scaling the result gives back every cell of the table, in
\* constant columns as in the others; every scaled cell lies in [0, 1].
C24_RoundTrip ==
    /\ stage \in {"scaled", "restored"} =>
          \A r \in 1..Len(table) : \A c \in 1..NumCols :
              /\ result.scaled[r][c][2] > 0
              /\ 0 <= result.scaled[r][c][1] /\ result.scaled[r][c][1] <= result.scaled[r][c][2]
    /\ stage = "restored" =>
          /\ Len(result.restored) = Len(table)
          /\ \A r \in 1..Len(table) : \A c \in 1..NumCols :
                /\ result.restored[r][c][2] > 0
                /\ result.restored[r][c][1] = table[r][c] * result.restored[r][c][2]

C24_Witness ==
    /\ stage = "restored"
    /\ Len(table) >= 3
    /\ \A r \in 1..Len(table) : table[r][1] = 5
    /\ \E r, s \in 1..Len(table) : table[r][2] = 0 /\ table[s][2] = 5
    /\ \E r \in 1..Len(table) : result.scaled[r][2] = <<2, 5>>
    /\ \A r \in 1..Len(table) : result.scaled[r][1] = <<0, 1>>


\* C26 as stated: in a pipeline run, the model and scaler a ticker's
\* prediction step used are the pair this run's training saved from the
\* current table, never a pair an earlier run left in ml/models, also when
\* training found too little data.
C26_PredictsWithOwnArtifacts ==
    stage = "pipe" =>
        \A k \in 1..Len(status) :
            status[k].step = "predict" /\ status[k].exit = 0 =>
                /\ train_main(table, NoArtifacts).dir.saved
                /\ models_dir[status[k].ticker] = train_main(table, NoArtifacts).dir


\* The commands of run_pipeline.main in the order of its text.
StageOrder ==
    <<[step |-> "prepare", ticker |-> ""]>>
    \o [t \in 1..Len(TICKERS) |-> [step |-> "train", ticker |-> TICKERS[t]]]
    \o [t \in 1..Len(TICKERS) |-> [step |-> "predict", ticker |-> TICKERS[t]]]
    \o <<[step |-> "save_daily", ticker |-> ""]>>

C28_KeepsOtherTickersPrediction ==
    stage = "off" =>
        \A k \in 1..Len(status) :
            /\ status[k].outcome = "saved" =>
                  /\ all_files[status[k].pos + 1] \in DOMAIN output_dir
                  /\ output_dir[all_files[status[k].pos + 1]].predictions = Range(TICKERS)
            /\ status[k].outcome = "no_predictions" =>
                  all_files[status[k].pos + 1] \notin DOMAIN output_dir
            /\ ( /\ status[k].outcome = "error"
                 /\ status[k].ticker = TICKERS[Len(TICKERS)]
                 /\ status[k].rows >= TIMESTEPS + 1 ) =>
                  /\ all_files[status[k].pos + 1] \in DOMAIN output_dir
                  /\ output_dir[all_files[status[k].pos + 1]].predictions
                        = Range(TICKERS) \ {status[k].ticker}


\* ------------------------------------------- AlphaVantageClient rate limit
\* The clock runs in seconds up to MaxTime; at most MaxCalls requests.
MaxTime == 130
MaxCalls == 11
\* Time that may pass between two calls of _make_request.
TickSizes == {20}

calls_per_minute == 5
MINUTE == 60
\* @retry(wait=wait_exponential(multiplier=1, min=4, max=60),
\*        stop=stop_after_attempt(3)): 1 s and 2 s are raised to the minimum.
RETRY_WAIT == 4
STOP_AFTER_ATTEMPT == 3

\* _enforce_rate_limit, lines 37-51, entered at current_time: the list it
\* leaves in last_call_times and the time at which it returns, after which
\* the request is sent.
enforce_rate_limit(last_call_times, current_time) ==
    LET kept == SelectSeq(last_call_times, LAMBDA t : current_time - t < MINUTE)
        wait_time == IF Len(kept) >= calls_per_minute
                     THEN MINUTE - (current_time - kept[1]) + 1
                     ELSE 0
    IN  [ last_call_times |-> Append(kept, current_time),
          issued_at |-> IF wait_time > 0 THEN current_time + wait_time ELSE current_time ]

\* snapshot is self.last_call_times, result the times at which requests.get
\* was called, target_col the failed attempts of the call in progress, i the
\* attempts made so far.
InitRate ==
    /\ raw = <<>> /\ all_files = <<>> /\ df = <<>> /\ trained_on = <<>>
    /\ output_dir = <<>> /\ status = <<>> /\ models_dir = <<>>
    /\ pc = "idle" /\ i = 0
    /\ table = <<>> /\ target_col = 0
    /\ snapshot = <<>> /\ result = <<>>
    /\ now = 0
    /\ stage = "rate"

\* time passes between two calls of _make_request
Elapse ==
    /\ stage = "rate" /\ target_col = 0
    /\ \E d \in TickSizes : now + d <= MaxTime /\ now' = now + d
    /\ UNCHANGED <<runVars, table, target_col, result, stage, snapshot, models_dir>>

\* one attempt of _make_request entered at time t, lines 55-85
Attempt(t) ==
    /\ i < MaxCalls
    /\ \E r \in {enforce_rate_limit(snapshot, t)} :
          /\ r.issued_at <= MaxTime
          /\ snapshot' = r.last_call_times
          /\ result' = Append(result, r.issued_at)
          /\ now' = r.issued_at
    /\ i' = i + 1
    /\ \E ok \in BOOLEAN :
          target_col' = IF ok \/ target_col + 1 >= STOP_AFTER_ATTEMPT THEN 0
                        ELSE target_col + 1
    /\ UNCHANGED <<raw, pc, all_files, df, output_dir, status, trained_on,
                   table, stage, models_dir>>

\* _make_request is called
MakeRequest == stage = "rate" /\ target_col = 0 /\ Attempt(now)

\* the attempt before raised: tenacity waits and calls again
Retry == stage = "rate" /\ target_col > 0 /\ Attempt(now + RETRY_WAIT)

NextRate == Elapse \/ MakeRequest \/ Retry

SpecRate == InitRate /\ [][NextRate]_vars

\* Requests sent in the minute that ends now.
SentInLastMinute == {k \in 1..Len(result) : now - result[k] < MINUTE}

C25_WindowBound == stage = "rate" => Cardinality(SentInLastMinute) <= calls_per_minute

C25_RecordedWhenSent ==
    stage = "rate" /\ Len(result) > 0 =>
        snapshot[Len(snapshot)] = result[Len(result)]

\* C25 as stated: over any sequence of _make_request calls, retries
\* included, at most 5 requests are sent in any window of 60 seconds, and
\* the recorded call times are the times at which the requests were sent.
C25_RateLimit == C25_WindowBound /\ C25_RecordedWhenSent


\* ------------------------------------------------- get_multiple_quotes
\* IntradayMarketFetcher.tickers, line 35
QUOTE_TICKERS == <<"OKLO", "RKLB", "SPY", "VIX", "VIXY", "VIXM">>
\* Symbols asked for in one call: the first n of the tickers.
MaxSymbols == 3
SymbolLists == { SubSeq(QUOTE_TICKERS, 1, n) : n \in 0..MaxSymbols }
\* What the API may give as price and as "01. symbol".
QuotePrices == {0, 1}
EchoedSymbols(symbol) == {symbol, "ECHO"}

\* get_quote's result, lines 194-203
QuoteEntry(symbol, price) == [symbol |-> symbol, error |-> FALSE, price |-> price]
\* the entry of lines 227-231
ErrorEntry(symbol) == [symbol |-> symbol, error |-> TRUE, price |-> 0]

\* Mutant of quotes_to_csv_rows: entries with an error give a row as well.
quotes_to_csv_rows_all(quotes, order) ==
    [k \in 1..Len(order) |-> <<quotes[order[k]].symbol, quotes[order[k]].price>>]

\* quotes_to_csv_rows, lines 111-138, over a dict whose keys were inserted
\* in the given order: a row of symbol and price per entry without 'error'.
quotes_to_csv_rows(quotes, order) ==
    LET kept == SelectSeq(order, LAMBDA s : ~quotes[s].error)
    IN  [k \in 1..Len(kept) |-> <<quotes[kept[k]].symbol, quotes[kept[k]].price>>]

\* table is the list of symbols, i the symbols done, target_col the failed
\* attempts of the symbol in hand, result the dict results, status the
\* requests made, snapshot the CSV rows.
InitQuotes ==
    /\ raw = <<>> /\ all_files = <<>> /\ df = <<>> /\ trained_on = <<>>
    /\ output_dir = <<>> /\ status = <<>> /\ models_dir = <<>> /\ now = 0
    /\ table \in SymbolLists
    /\ pc = "fetch" /\ i = 0 /\ target_col = 0
    /\ result = <<>> /\ snapshot = <<>>
    /\ stage = "quotes"

Requested(symbol, outcome) == Append(status, [symbol |-> symbol, outcome |-> outcome])

\* _make_request raised and tenacity calls it again, line 53
RequestRetried ==
    /\ stage = "quotes" /\ pc = "fetch" /\ i < Len(table)
    /\ target_col + 1 < STOP_AFTER_ATTEMPT
    /\ target_col' = target_col + 1
    /\ status' = Requested(table[i + 1], "raised")
    /\ UNCHANGED <<raw, pc, all_files, i, df, output_dir, trained_on,
                   table, result, stage, snapshot, models_dir, now>>

\* lines 222-231: get_quote raised, after the last attempt of _make_request
\* or for a reply without "Global Quote"; the error entry is stored and the
\* loop goes on.
QuoteFailed ==
    /\ stage = "quotes" /\ pc = "fetch" /\ i < Len(table)
    /\ \E outcome \in {"raised", "no_quote"} :
          /\ outcome = "raised" => target_col + 1 = STOP_AFTER_ATTEMPT
          /\ status' = Requested(table[i + 1], outcome)
    /\ result' = WriteFile(result, table[i + 1], ErrorEntry(table[i + 1]))
    /\ i' = i + 1 /\ target_col' = 0
    /\ UNCHANGED <<raw, pc, all_files, df, output_dir, trained_on,
                   table, stage, snapshot, models_dir, now>>

\* lines 222-224: get_quote returned
QuoteFetched ==
    /\ stage = "quotes" /\ pc = "fetch" /\ i < Len(table)
    /\ \E price \in QuotePrices, echoed \in EchoedSymbols(table[i + 1]) :
          result' = WriteFile(result, table[i + 1], QuoteEntry(echoed, price))
    /\ status' = Requested(table[i + 1], "quote")
    /\ i' = i + 1 /\ target_col' = 0
    /\ UNCHANGED <<raw, pc, all_files, df, output_dir, trained_on,
                   table, stage, snapshot, models_dir, now>>

\* line 234: get_multiple_quotes returns
QuotesReturned ==
    /\ stage = "quotes" /\ pc = "fetch" /\ i = Len(table)
    /\ pc' = "convert"
    /\ UNCHANGED <<raw, all_files, i, df, output_dir, status, trained_on, pureVars>>

\* intraday_fetcher, line 192
ToCsvRows ==
    /\ stage = "quotes" /\ pc = "convert"
    /\ snapshot' = quotes_to_csv_rows(result, table)
    /\ pc' = "done"
    /\ UNCHANGED <<raw, all_files, i, df, output_dir, status, trained_on,
                   table, target_col, result, stage, models_dir, now>>

NextQuotes == RequestRetried \/ QuoteFailed \/ QuoteFetched \/ QuotesReturned \/ ToCsvRows

SpecQuotes == InitQuotes /\ [][NextQuotes]_vars

RequestsFor(symbol) == {k \in 1..Len(status) : status[k].symbol = symbol}

\* C29: get_multiple_quotes returns one entry for each symbol asked for, a
\* quote or an error entry that carries the symbol; a symbol that fails is
\* requested at most 3 times and the symbols after it are still fetched;
\* quotes_to_csv_rows gives one row for each entry without an error.
C29_OneEntryPerSymbol ==
    stage = "quotes" =>
        /\ \A s \in Range(table) : Cardinality(RequestsFor(s)) <= STOP_AFTER_ATTEMPT
        /\ DOMAIN result = {table[k] : k \in 1..i}
        /\ \A s \in DOMAIN result : result[s].error => result[s] = ErrorEntry(s)
        /\ pc \in {"convert", "done"} =>
              /\ DOMAIN result = Range(table)
              /\ \A s \in Range(table) : RequestsFor(s) # {}
        /\ pc = "done" =>
              /\ Len(snapshot) = Cardinality({s \in DOMAIN result : ~result[s].error})
              /\ \A s \in DOMAIN result : ~result[s].error =>
                    \E k \in 1..Len(snapshot) :
                        snapshot[k] = <<result[s].symbol, result[s].price>>

C29_Witness ==
    /\ stage = "quotes" /\ pc = "done"
    /\ Len(table) = MaxSymbols
    /\ result[table[1]].error
    /\ Cardinality(RequestsFor(table[1])) = STOP_AFTER_ATTEMPT
    /\ ~result[table[Len(table)]].error
    /\ Len(snapshot) = Len(table) - 1


\* ------------------------------------------------- run_intraday_fetch
\* Calls of run_intraday_fetch on the day.
MaxFetches == 3
\* The symbols the fetcher asks for.
FetchTickers == SubSeq(QUOTE_TICKERS, 1, MaxSymbols)
\* get_csv_filename for the day
CsvName == "intraday_today.csv"

\* the header of lines 73-82
HeaderLine == [kind |-> "header", timestamp |-> 0, symbol |-> "symbol", price |-> 0]
\* a row of lines 125-134 as a line of the file
CsvLine(timestamp, row) ==
    [kind |-> "row", timestamp |-> timestamp, symbol |-> row[1], price |-> row[2]]

\* What get_multiple_quotes may return: each symbol with a quote or an error.
QuoteResults ==
    { [s \in Range(FetchTickers) |-> IF s \in failed THEN ErrorEntry(s) ELSE QuoteEntry(s, 1)] :
          failed \in SUBSET Range(FetchTickers) }

\* Mutant of initialize_daily_csv: the file is opened for writing each time.
initialize_daily_csv_always(files, filepath) == WriteFile(files, filepath, <<HeaderLine>>)

\* initialize_daily_csv, lines 68-90
initialize_daily_csv(files, filepath) ==
    IF filepath \in DOMAIN files THEN files
    ELSE WriteFile(files, filepath, <<HeaderLine>>)

\* append_to_csv, lines 92-98
append_to_csv(files, filepath, data_rows) ==
    [files EXCEPT ![filepath] = @ \o data_rows]

\* output_dir is data/intraday, i the calls made, target_col the API
\* requests made, status what each call saw and appended.
InitCsv ==
    /\ raw = <<>> /\ all_files = <<>> /\ df = <<>> /\ trained_on = <<>>
    /\ output_dir = <<>> /\ status = <<>> /\ models_dir = <<>> /\ now = 0
    /\ table = <<>> /\ result = <<>> /\ snapshot = <<>>
    /\ pc = "idle" /\ i = 0 /\ target_col = 0
    /\ stage = "csv"

\* lines 170-172: the market is closed
FetchClosed ==
    /\ stage = "csv" /\ i < MaxFetches
    /\ i' = i + 1
    /\ status' = Append(status, [open |-> FALSE, rows |-> <<>>])
    /\ UNCHANGED <<raw, pc, all_files, df, output_dir, trained_on, pureVars>>

\* lines 175-205: the market is open; a request per symbol, retries aside
FetchOpen ==
    /\ stage = "csv" /\ i < MaxFetches
    /\ \E quotes \in QuoteResults :
        \E csv_rows \in {quotes_to_csv_rows(quotes, FetchTickers)} :
        \E lines \in {[k \in 1..Len(csv_rows) |-> CsvLine(i + 1, csv_rows[k])]} :
          /\ output_dir' = IF Len(csv_rows) > 0
                           THEN append_to_csv(initialize_daily_csv(output_dir, CsvName),
                                              CsvName, lines)
                           ELSE initialize_daily_csv(output_dir, CsvName)
          /\ status' = Append(status, [open |-> TRUE, rows |-> lines])
    /\ target_col' = target_col + Len(FetchTickers)
    /\ i' = i + 1
    /\ UNCHANGED <<raw, pc, all_files, df, trained_on,
                   table, result, stage, snapshot, models_dir, now>>

NextCsv == FetchClosed \/ FetchOpen

SpecCsv == InitCsv /\ [][NextCsv]_vars

RECURSIVE AppendedRows(_)
\* The rows the first k calls appended, in the order of the calls.
AppendedRows(k) == IF k = 0 THEN <<>> ELSE AppendedRows(k - 1) \o status[k].rows

\* C30: over the calls of run_intraday_fetch on one day the day's CSV has
\* one header row, its first line, then the data rows in the order they were
\* appended; a call never rewrites or removes a line; a call with the market
\* closed makes no API request and creates or changes no file.
C30_OneHeaderAppendOnly ==
    /\ [](stage = "csv" =>
            /\ DOMAIN output_dir \subseteq {CsvName}
            /\ (CsvName \in DOMAIN output_dir) = (\E k \in 1..Len(status) : status[k].open)
            /\ CsvName \in DOMAIN output_dir =>
                  output_dir[CsvName] = <<HeaderLine>> \o AppendedRows(Len(status)))
    /\ [][stage = "csv" =>
            /\ CsvName \in DOMAIN output_dir =>
                  /\ CsvName \in DOMAIN output_dir'
                  /\ Len(output_dir'[CsvName]) >= Len(output_dir[CsvName])
                  /\ SubSeq(output_dir'[CsvName], 1, Len(output_dir[CsvName]))
                        = output_dir[CsvName]
            /\ ~status'[Len(status')].open =>
                  output_dir' = output_dir /\ target_col' = target_col]_vars

C30_Witness ==
    /\ stage = "csv" /\ Len(status) = MaxFetches
    /\ status[1].open /\ Len(status[1].rows) > 0
    /\ ~status[2].open
    /\ status[3].open /\ Len(status[3].rows) > 0
    /\ Len(output_dir[CsvName]) = 1 + Len(status[1].rows) + Len(status[3].rows)

====
